---- MODULE Spec2Model ----
(***************************************************************************)
(* Regrade analytics pipeline (analyze.py, utils/parse.py, utils/cache.py, *)
(* utils/print.py): summary parsing, concurrent collection of review       *)
(* pages, classification with score overrides, outcome propagation,        *)
(* per-student and per-staff aggregation, cache load/save.                 *)
(*                                                                         *)
(* Encoding of Python values:                                              *)
(*   Optional[T]      a set with at most one element: {} is None           *)
(*   dict (ordered)   a function plus the sequence of its keys in          *)
(*                    insertion order, or a sequence of entries            *)
(*   float            an integer (points, POSIX instants), confidences in  *)
(*                    hundredths                                           *)
(*   exception        a result record with raised = TRUE; in main it ends  *)
(*                    the run (pc = "failed")                              *)
(***************************************************************************)
EXTENDS Integers, Sequences, FiniteSets, TLC

-----------------------------------------------------------------------------
(* Bounds of the model *)

\* longest summary table (rows of the regrade requests table)
MaxRows == 2
\* largest question weight / score on a review page
MaxPoints == 2
\* latest instant of a created_at / updated_at field
MaxTime == 2
\* most closed requests on one review page
MaxClosed == 1
\* largest pool size given as num_processes
MaxProcs == 2

\* confidence threshold of classify_responses, in hundredths (0.6)
THRESHOLD == 60

-----------------------------------------------------------------------------
(* Python values *)

None == {}
Some(x) == {x}
The(opt) == CHOOSE x \in opt : TRUE

Range(s) == {s[i] : i \in 1..Len(s)}

\* all sequences over S of length at most n
SeqsUpTo(S, n) == UNION {[1..k -> S] : k \in 0..n}

\* the sequences that list every element of S exactly once
Orderings(S) == {s \in [1..Cardinality(S) -> S] : Range(s) = S}

-----------------------------------------------------------------------------
(* utils/types.py *)

\* RegradeRequest: one turn of a conversation; the key "accepted" is absent
\* (None here) until modify_with_classifications sets it
Message(user, text, timestamp) ==
    [user |-> user, text |-> text, timestamp |-> timestamp, accepted |-> None]

\* ReviewData
ReviewData(link, reviews, score, weight) ==
    [link |-> link, reviews |-> reviews, score |-> score, weight |-> weight,
     accepted |-> None]

-----------------------------------------------------------------------------
(* analyze.py: get_review_data *)

\* format_request: the student comment (stamped created_at) and then the
\* staff comment (stamped updated_at) of one request object, each only when
\* it is not None
format_request(regrade_request) ==
    IF regrade_request = None THEN <<>>
    ELSE LET r == The(regrade_request)
             student ==
                 IF r.student_comment # None
                 THEN <<Message("student", The(r.student_comment), r.created_at)>>
                 ELSE <<>>
             staff ==
                 IF r.staff_comment # None
                 THEN <<Message("staff", The(r.staff_comment), r.updated_at)>>
                 ELSE <<>>
         IN  student \o staff

\* reviews.extend(format_request(c)) for each closed request, in source order
RECURSIVE ExtendClosed(_, _)
ExtendClosed(reviews, closed_requests) ==
    IF closed_requests = <<>> THEN reviews
    ELSE ExtendClosed(reviews \o format_request(Some(Head(closed_requests))),
                      Tail(closed_requests))

\* the sort is not stable: an element goes before the elements of its own key
RECURSIVE InsertByTimestamp_BeforeEqual(_, _)
InsertByTimestamp_BeforeEqual(sorted, m) ==
    IF sorted = <<>> THEN <<m>>
    ELSE IF Head(sorted).timestamp < m.timestamp
         THEN <<Head(sorted)>> \o InsertByTimestamp_BeforeEqual(Tail(sorted), m)
         ELSE <<m>> \o sorted

\* list.sort(key=timestamp) is stable: an element goes after every element
\* whose key is not larger
RECURSIVE InsertByTimestamp(_, _)
InsertByTimestamp(sorted, m) ==
    IF sorted = <<>> THEN <<m>>
    ELSE IF Head(sorted).timestamp <= m.timestamp
         THEN <<Head(sorted)>> \o InsertByTimestamp(Tail(sorted), m)
         ELSE <<m>> \o sorted

RECURSIVE SortByTimestamp(_)
SortByTimestamp(reviews) ==
    IF reviews = <<>> THEN <<>>
    ELSE InsertByTimestamp(SortByTimestamp(SubSeq(reviews, 1, Len(reviews) - 1)),
                           reviews[Len(reviews)])

\* the data div is not tested for None: json.loads of its props raises
get_review_data_NoDivCheck(link, page) ==
    IF page.kind = "timeout"
    THEN [raised |-> TRUE, error |-> "Timeout"]
    ELSE IF page.kind \in {"malformed", "nodiv"}
    THEN [raised |-> TRUE, error |-> "JSONDecodeError"]
    ELSE [raised |-> FALSE,
          value |-> ReviewData(
              link,
              SortByTimestamp(ExtendClosed(format_request(page.open_request),
                                           page.closed_requests)),
              page.score, page.weight)]

\* The outcome of one worker call get_review_data(cookies, link) on the page
\* the site serves for the link: requests.get may raise (timeout), json.loads
\* or a missing key may raise (malformed), a page without the data div gives
\* the empty record, any other page gives its sorted conversation.
get_review_data(link, page) ==
    IF page.kind = "timeout"
    THEN [raised |-> TRUE, error |-> "Timeout"]
    ELSE IF page.kind = "malformed"
    THEN [raised |-> TRUE, error |-> "JSONDecodeError"]
    ELSE IF page.kind = "nodiv"
    THEN [raised |-> FALSE, value |-> ReviewData(link, <<>>, 0, 0)]
    ELSE [raised |-> FALSE,
          value |-> ReviewData(
              link,
              SortByTimestamp(ExtendClosed(format_request(page.open_request),
                                           page.closed_requests)),
              page.score, page.weight)]

-----------------------------------------------------------------------------
(* analyze.py: classify_responses, modify_with_classifications *)

\* str.strip() on the texts of the model: a whitespace-only text becomes
\* empty, the other texts carry no outer whitespace
WhitespaceOnly == {"", " "}
Strip(text) == IF text \in WhitespaceOnly THEN "" ELSE text

\* the confidence is not looked at
classify_responses_AnyConfidence(classifier_results) ==
    [i \in 1..Len(classifier_results) |->
        classifier_results[i].labels[1] = "accepted"]

\* classify_responses: one boolean per ranked result, in order
classify_responses(classifier_results) ==
    [i \in 1..Len(classifier_results) |->
        /\ classifier_results[i].labels[1] = "accepted"
        /\ classifier_results[i].scores[1] >= THRESHOLD]

\* a blank staff message is left out of the batch
RECURSIVE StaffOfRecord_SkipsBlank(_, _)
StaffOfRecord_SkipsBlank(review_data, idx) ==
    IF idx > Len(review_data.reviews) THEN <<>>
    ELSE (IF /\ review_data.reviews[idx].user = "staff"
             /\ Strip(review_data.reviews[idx].text) # ""
          THEN <<[link |-> review_data.link, idx |-> idx,
                  text |-> Strip(review_data.reviews[idx].text)]>>
          ELSE <<>>)
         \o StaffOfRecord_SkipsBlank(review_data, idx + 1)

\* the (link, index, text) triples of one record's staff messages
RECURSIVE StaffOfRecord(_, _)
StaffOfRecord(review_data, idx) ==
    IF idx > Len(review_data.reviews) THEN <<>>
    ELSE (IF review_data.reviews[idx].user = "staff"
          THEN <<[link |-> review_data.link, idx |-> idx,
                  text |-> Strip(review_data.reviews[idx].text)]>>
          ELSE <<>>)
         \o StaffOfRecord(review_data, idx + 1)

\* data_to_classify: over link_map.items() in insertion order
RECURSIVE DataToClassify(_, _)
DataToClassify(order, lm) ==
    IF order = <<>> THEN <<>>
    ELSE StaffOfRecord(lm[Head(order)], 1) \o DataToClassify(Tail(order), lm)

\* text_only: data[2] or "accepted"
TextOnly(data_to_classify) ==
    [i \in 1..Len(data_to_classify) |->
        IF data_to_classify[i].text = "" THEN "accepted"
        ELSE data_to_classify[i].text]

\* the full score must be exceeded for the override
Override_Strict(review_data, result) ==
    IF review_data.weight > 0 /\ review_data.score > review_data.weight
    THEN TRUE
    ELSE IF review_data.weight > 0 /\ review_data.score <= 0
    THEN FALSE
    ELSE result

\* the score override of one classification result
Override(review_data, result) ==
    IF review_data.weight > 0 /\ review_data.score >= review_data.weight
    THEN TRUE
    ELSE IF review_data.weight > 0 /\ review_data.score <= 0
    THEN FALSE
    ELSE result

\* review_data["reviews"][idx]["accepted"] = result, for each zipped pair
RECURSIVE ApplyResults(_, _, _, _)
ApplyResults(lm, data_to_classify, results, i) ==
    IF i > Len(data_to_classify) \/ i > Len(results) THEN lm
    ELSE LET d == data_to_classify[i]
             label == Override(lm[d.link], results[i])
         IN  ApplyResults(
                 [lm EXCEPT ![d.link].reviews[d.idx].accepted = Some(label)],
                 data_to_classify, results, i + 1)

\* a staff message of the same timestamp replaces the one seen before
RECURSIVE LastResponse_TiesReplace(_, _, _)
LastResponse_TiesReplace(reviews, i, acc) ==
    IF i > Len(reviews) THEN acc
    ELSE LET review == reviews[i]
             takes == /\ review.user = "staff"
                      /\ \/ acc.time = None
                         \/ The(acc.time) <= review.timestamp
         IN  LastResponse_TiesReplace(
                 reviews, i + 1,
                 IF takes
                 THEN [time |-> Some(review.timestamp),
                       accepted |-> IF review.accepted = None THEN FALSE
                                    ELSE The(review.accepted)]
                 ELSE acc)

\* the scan for the last staff response of one conversation: the state is
\* (last_response_time, last_response_accepted)
RECURSIVE LastResponse(_, _, _)
LastResponse(reviews, i, acc) ==
    IF i > Len(reviews) THEN acc
    ELSE LET review == reviews[i]
             takes == /\ review.user = "staff"
                      /\ \/ acc.time = None
                         \/ The(acc.time) < review.timestamp
         IN  LastResponse(
                 reviews, i + 1,
                 IF takes
                 THEN [time |-> Some(review.timestamp),
                       accepted |-> IF review.accepted = None THEN FALSE
                                    ELSE The(review.accepted)]
                 ELSE acc)

\* review_data["accepted"] of one record after the aggregation loop
Propagate(review_data) ==
    LET last == LastResponse(review_data.reviews, 1,
                             [time |-> None, accepted |-> FALSE])
    IN  [review_data EXCEPT
            !.accepted = IF last.time # None THEN Some(last.accepted) ELSE None]

\* modify_with_classifications from line 196 on, given the results that
\* classify_responses returned: the labels, then the outcome of each record
LabelAndPropagate(order, lm, results) ==
    LET labelled == ApplyResults(lm, DataToClassify(order, lm), results, 1)
    IN  [link \in DOMAIN lm |-> Propagate(labelled[link])]

\* modify_with_classifications, given what CLASSIFIER answers for text_only
modify_with_classifications(order, lm, answer) ==
    LabelAndPropagate(order, lm, classify_responses(answer))

-----------------------------------------------------------------------------
(* api/client.py, utils/parse.py: parse_regrade_page *)

BASE_URL == "https://www.gradescope.com"

\* urljoin(BASE_URL, href) on the hrefs of the model
urljoin(base, href) ==
    CASE href = "/r/1" -> "https://www.gradescope.com/r/1"
      [] href = "r/1"  -> "https://www.gradescope.com/r/1"
      [] href = "/r/2" -> "https://www.gradescope.com/r/2"
      [] href = "/r/3" -> "https://www.gradescope.com/r/3"
      [] href = "/q/1" -> "https://www.gradescope.com/q/1"
      [] OTHER         -> base

\* regrade_info[name], as an index into the ordered dict (0: not a key)
IndexOf(regrade_info, name) ==
    IF \E i \in 1..Len(regrade_info) : regrade_info[i].name = name
    THEN CHOOSE i \in 1..Len(regrade_info) : regrade_info[i].name = name
    ELSE 0

\* the entry a student gets at the first row that names them
NewStudent(name) ==
    [name |-> name, num_comments |-> 0, regrades |-> <<>>,
     num_accepted |-> 0, num_responded |-> 0]

\* the review links already recorded for a student (student_review_links)
LinksOf(student_data) ==
    {student_data.regrades[i].review_link : i \in 1..Len(student_data.regrades)}

\* the set student_review_links is never consulted: every row with its two
\* links appends a regrade
ParseRow_NoDedup(regrade_info, row) ==
    LET known == IF IndexOf(regrade_info, row.name) = 0
                 THEN Append(regrade_info, NewStudent(row.name))
                 ELSE regrade_info
        i == IndexOf(known, row.name)
    IN  IF row.question = None THEN known
        ELSE IF row.review = None THEN known
        ELSE [known EXCEPT
                 ![i].num_comments = @ + 1,
                 ![i].regrades = Append(@,
                     [question |-> The(row.question).title,
                      grader |-> row.grader,
                      question_link |-> urljoin(BASE_URL, The(row.question).href),
                      review_link |-> urljoin(BASE_URL, The(row.review))])]

\* one iteration of the loop over the table rows
ParseRow(regrade_info, row) ==
    LET known == IF IndexOf(regrade_info, row.name) = 0
                 THEN Append(regrade_info, NewStudent(row.name))
                 ELSE regrade_info
        i == IndexOf(known, row.name)
    IN  IF row.question = None THEN known
        ELSE IF row.review = None THEN known
        ELSE LET review_absolute_link == urljoin(BASE_URL, The(row.review))
                 counted == [known EXCEPT ![i].num_comments = @ + 1]
             IN  IF review_absolute_link \in LinksOf(known[i]) THEN counted
                 ELSE [counted EXCEPT ![i].regrades = Append(@,
                          [question |-> The(row.question).title,
                           grader |-> row.grader,
                           question_link |->
                               urljoin(BASE_URL, The(row.question).href),
                           review_link |-> review_absolute_link])]

RECURSIVE ParseRows(_, _)
ParseRows(regrade_info, rows) ==
    IF rows = <<>> THEN regrade_info
    ELSE ParseRows(ParseRow(regrade_info, Head(rows)), Tail(rows))

parse_regrade_page(rows) == ParseRows(<<>>, rows)

-----------------------------------------------------------------------------
(* analyze.py: main, the parts that are pure *)

get_metric(data, metric) ==
    IF metric = "total" THEN data.num_comments
    ELSE IF metric = "unique" THEN Len(data.regrades)
    ELSE data.num_comments

\* review_links: the links of the students that pass the min_requests cutoff
ReviewLinks(regrade_info, metric, min_requests) ==
    UNION {LinksOf(regrade_info[i]) :
              i \in {j \in 1..Len(regrade_info) :
                        get_metric(regrade_info[j], metric) >= min_requests}}

\* every answered request counts as accepted
RECURSIVE CountStudent_AddsOne(_, _, _, _)
CountStudent_AddsOne(info_list, lm, i, acc) ==
    IF i > Len(info_list) THEN acc
    ELSE IF info_list[i].review_link \notin DOMAIN lm
    THEN [acc EXCEPT !.raised = TRUE]
    ELSE LET review_data == lm[info_list[i].review_link]
         IN  CountStudent_AddsOne(
                 info_list, lm, i + 1,
                 IF review_data.accepted # None
                 THEN [acc EXCEPT !.num_accepted = @ + 1,
                                  !.num_responded = @ + 1]
                 ELSE acc)

\* the counting loop over one student's regrades; link_map[...] raises
\* KeyError on a link that was not collected
RECURSIVE CountStudent(_, _, _, _)
CountStudent(info_list, lm, i, acc) ==
    IF i > Len(info_list) THEN acc
    ELSE IF info_list[i].review_link \notin DOMAIN lm
    THEN [acc EXCEPT !.raised = TRUE]
    ELSE LET review_data == lm[info_list[i].review_link]
         IN  CountStudent(
                 info_list, lm, i + 1,
                 IF review_data.accepted # None
                 THEN [acc EXCEPT
                          !.num_accepted =
                              @ + (IF The(review_data.accepted) THEN 1 ELSE 0),
                          !.num_responded = @ + 1]
                 ELSE acc)

\* the counters of a student start from the counts the entry already holds
RECURSIVE Aggregate_Accumulates(_, _, _)
Aggregate_Accumulates(regrade_info, lm, i) ==
    IF i > Len(regrade_info) THEN [raised |-> FALSE, regrade_info |-> regrade_info]
    ELSE LET c == CountStudent(regrade_info[i].regrades, lm, 1,
                      [raised |-> FALSE,
                       num_accepted |-> regrade_info[i].num_accepted,
                       num_responded |-> regrade_info[i].num_responded])
         IN  IF c.raised THEN [raised |-> TRUE, regrade_info |-> regrade_info]
             ELSE Aggregate_Accumulates(
                      [regrade_info EXCEPT ![i].num_accepted = c.num_accepted,
                                           ![i].num_responded = c.num_responded],
                      lm, i + 1)

\* the two counters are set to 0 once, before the loop over the students
RECURSIVE Aggregate_CountersNotReset(_, _, _)
Aggregate_CountersNotReset(regrade_info, lm, i) ==
    IF i > Len(regrade_info) THEN [raised |-> FALSE, regrade_info |-> regrade_info]
    ELSE LET c == CountStudent(regrade_info[i].regrades, lm, 1,
                      [raised |-> FALSE,
                       num_accepted |->
                           IF i = 1 THEN 0 ELSE regrade_info[i - 1].num_accepted,
                       num_responded |->
                           IF i = 1 THEN 0 ELSE regrade_info[i - 1].num_responded])
         IN  IF c.raised THEN [raised |-> TRUE, regrade_info |-> regrade_info]
             ELSE Aggregate_CountersNotReset(
                      [regrade_info EXCEPT ![i].num_accepted = c.num_accepted,
                                           ![i].num_responded = c.num_responded],
                      lm, i + 1)

\* the loop over the students, in dict order; it stops at the first KeyError
\* with the earlier students already updated
RECURSIVE Aggregate(_, _, _)
Aggregate(regrade_info, lm, i) ==
    IF i > Len(regrade_info) THEN [raised |-> FALSE, regrade_info |-> regrade_info]
    ELSE LET c == CountStudent(regrade_info[i].regrades, lm, 1,
                      [raised |-> FALSE, num_accepted |-> 0, num_responded |-> 0])
         IN  IF c.raised THEN [raised |-> TRUE, regrade_info |-> regrade_info]
             ELSE Aggregate(
                      [regrade_info EXCEPT ![i].num_accepted = c.num_accepted,
                                           ![i].num_responded = c.num_responded],
                      lm, i + 1)

-----------------------------------------------------------------------------
(* utils/print.py: print_staff_stats *)

\* all regrades of all students, in the order the two loops visit them
RECURSIVE AllRegrades(_)
AllRegrades(regrade_info) ==
    IF regrade_info = <<>> THEN <<>>
    ELSE Head(regrade_info).regrades \o AllRegrades(Tail(regrade_info))

NoStats == [num_accepted |-> 0, num_responded |-> 0, num_requested |-> 0]

\* an unanswered request is not counted as requested
CountRegrade_RequestedIfAnswered(staff_stats, regrade, lm) ==
    LET staff_name == regrade.grader
        old == IF staff_name \in DOMAIN staff_stats THEN staff_stats[staff_name]
               ELSE NoStats
        question_accepted == lm[regrade.review_link].accepted
        new == [num_requested |-> old.num_requested
                    + (IF question_accepted # None THEN 1 ELSE 0),
                num_responded |-> old.num_responded
                    + (IF question_accepted # None THEN 1 ELSE 0),
                num_accepted |-> old.num_accepted
                    + (IF question_accepted # None /\ The(question_accepted)
                       THEN 1 ELSE 0)]
    IN  [g \in DOMAIN staff_stats \cup {staff_name} |->
            IF g = staff_name THEN new ELSE staff_stats[g]]

\* one iteration of the inner loop on the dict staff_stats
CountRegrade(staff_stats, regrade, lm) ==
    LET staff_name == regrade.grader
        old == IF staff_name \in DOMAIN staff_stats THEN staff_stats[staff_name]
               ELSE NoStats
        question_accepted == lm[regrade.review_link].accepted
        new == [num_requested |-> old.num_requested + 1,
                num_responded |-> old.num_responded
                    + (IF question_accepted # None THEN 1 ELSE 0),
                num_accepted |-> old.num_accepted
                    + (IF question_accepted # None /\ The(question_accepted)
                       THEN 1 ELSE 0)]
    IN  [g \in DOMAIN staff_stats \cup {staff_name} |->
            IF g = staff_name THEN new ELSE staff_stats[g]]

RECURSIVE StaffStats(_, _, _)
StaffStats(regrades, lm, staff_stats) ==
    IF regrades = <<>> THEN [raised |-> FALSE, staff_stats |-> staff_stats]
    ELSE IF Head(regrades).review_link \notin DOMAIN lm
    THEN [raised |-> TRUE, staff_stats |-> staff_stats]
    ELSE StaffStats(Tail(regrades), lm, CountRegrade(staff_stats, Head(regrades), lm))

\* the empty dict
EmptyDict == [x \in {} |-> NoStats]

print_staff_stats(regrade_info, lm) ==
    StaffStats(AllRegrades(regrade_info), lm, EmptyDict)

-----------------------------------------------------------------------------
(* The inputs of a run: the summary table and the review pages the site    *)
(* serves, and what the classifier answers                                 *)

Names == {"ann", "bob"}
Graders == {"gus", "hal"}
Hrefs == {"/r/1", "/r/2"}
Links == {urljoin(BASE_URL, h) : h \in Hrefs}
Question == [title |-> "Q1", href |-> "/q/1"]

\* a row of the table: the question and review cells may lack their <a> tag
Rows ==
    [name : Names, question : {None, Some(Question)}, grader : Graders,
     review : {None} \cup {Some(h) : h \in Hrefs}]

AllTables == SeqsUpTo(Rows, MaxRows)

\* the tables served during a whole run: every cell has its tag, and a
\* question submission (a review link) has one grader
GraderOf(href) == IF href = "/r/1" THEN "gus" ELSE "hal"
SiteTables ==
    {t \in AllTables :
        \A i \in 1..Len(t) :
            /\ t[i].question # None
            /\ t[i].review # None
            /\ t[i].grader = GraderOf(The(t[i].review))}

StaffTexts == {"", " ", "no"}
Points == 0..MaxPoints
Instants == 1..MaxTime

\* the request objects of a review page's props
Requests ==
    [student_comment : {None, Some("please regrade")},
     staff_comment : {None} \cup {Some(t) : t \in StaffTexts},
     created_at : Instants, updated_at : Instants]

ErrorPages == {[kind |-> "timeout"], [kind |-> "malformed"], [kind |-> "nodiv"]}

OkPages ==
    [kind : {"ok"}, open_request : {None} \cup {Some(r) : r \in Requests},
     closed_requests : SeqsUpTo(Requests, MaxClosed),
     score : Points, weight : Points]

\* every page of the model
AllPages == ErrorPages \cup OkPages

\* the pages served during a whole run: one request, asked at instant 1 and
\* answered (if at all) at the last instant, on a question of full weight
SitePage(staff_comment, score) ==
    [kind |-> "ok",
     open_request |-> Some([student_comment |-> Some("please regrade"),
                            staff_comment |-> staff_comment,
                            created_at |-> 1, updated_at |-> MaxTime]),
     closed_requests |-> <<>>, score |-> score, weight |-> MaxPoints]
SitePages ==
    ErrorPages \cup
    {SitePage(staff_comment, 1) : staff_comment \in {None, Some(""), Some("no")}}
    \cup {SitePage(Some(""), MaxPoints), SitePage(Some("no"), 0)}

\* the ranked results the classifier may give one input: the two labels in
\* either order, the top one with a confidence around the threshold
Confidences == {THRESHOLD - 1, THRESHOLD}
Rankings ==
    {[labels |-> ranked, scores |-> <<c, 100 - c>>] :
        ranked \in {<<"accepted", "rejected">>, <<"rejected", "accepted">>},
        c \in Confidences}

\* CLASSIFIER(responses, labels, ...): one ranked result per input, in order
ClassifierOutputs(responses) == [1..Len(responses) -> Rankings]

-----------------------------------------------------------------------------
(* State *)

VARIABLES
    args,               \* the keyword arguments of main
    cache_file,         \* the cache file of this course and assignment: None
                        \* when there is none, else Some(its JSON content)
    pc,                 \* where main is
    content,            \* the rows of the summary page main fetched, from
                        \* the fetch until the collection starts: nothing
                        \* reads it after line 302 (<<>> otherwise)
    regrade_info,       \* RegradeInfoDict: the student entries, in dict order
    link_map,           \* LinkMap: link -> ReviewData
    link_order,         \* the keys of link_map in insertion order
    loaded_from_cache,
    review_links,       \* the set of links main hands to get_all_review_data
    links,              \* that set in the order pool.map iterates it
    futures,            \* the pool's future of each submitted call
    gathered,           \* how many results the for loop has taken
    served,             \* the page the site served each finished call
    completed,          \* the calls in the order they finished
    CLASSIFIER,         \* the global: None or Some("pipeline")
    classifier_results, \* classify_responses: what the CLASSIFIER call gave,
                        \* until the labels are applied
    results,            \* modify_with_classifications: what classify_responses
                        \* returned (the tentative labels)
    staff_stats,        \* the dict print_staff_stats builds
    raised,             \* the exception that ended the run: None or Some(type)
    cache_log           \* the accesses of this run to the cache folder, in
                        \* order: "check" (check_cache), "read" (load_cache),
                        \* "write" (save_cache)

vars ==
    <<args, cache_file, pc, regrade_info, link_map, link_order,
      loaded_from_cache, review_links, links, futures, gathered, served,
      completed, CLASSIFIER, classifier_results, results, staff_stats, raised,
      cache_log, content>>

\* the empty LinkMap
EmptyLinkMap == [l \in {} |-> ReviewData(l, <<>>, 0, 0)]

Args ==
    [classify : BOOLEAN, refresh_cache : BOOLEAN, cache_folder : BOOLEAN,
     min_requests : {0, MaxRows}, metric : {"total", "unique"},
     num_processes : {0, 1, MaxProcs}]

\* a future: submitted, picked up by a worker process, or finished with the
\* call's outcome
Pending == [state |-> "pending"]
Running == [state |-> "running"]
Finished(outcome) == [state |-> "finished", outcome |-> outcome]

-----------------------------------------------------------------------------
(* utils/cache.py *)

\* json.dump of {"regrade_info": ..., "link_map": ...}; the key order of
\* link_map is part of the file
save_cache(ri, lm, order) ==
    Some([regrade_info |-> ri, link_map |-> lm, link_order |-> order])

\* check_cache: the path of the file when the folder holds it
check_cache(file) == file # None

\* load_cache: json.load of the file
load_cache(file) == The(file)

-----------------------------------------------------------------------------
(* A whole earlier run on a cache miss, as a function of its inputs: what  *)
(* it left in the cache file                                              *)

RECURSIVE CollectAll(_, _)
CollectAll(order, pages) ==
    IF order = <<>> THEN EmptyLinkMap
    ELSE LET rest == CollectAll(Tail(order), pages)
             r == get_review_data(Head(order), pages[Head(order)]).value
         IN  [l \in DOMAIN rest \cup {Head(order)} |->
                 IF l = Head(order) THEN r ELSE rest[l]]

EarlierRun(table, pages, classify, answer) ==
    LET ri == parse_regrade_page(table)
        order == CHOOSE o \in Orderings(ReviewLinks(ri, "total", 0)) : TRUE
        lm == CollectAll(order, pages)
        texts == TextOnly(DataToClassify(order, lm))
        classified ==
            IF classify
            THEN modify_with_classifications(
                     order, lm, [i \in 1..Len(texts) |-> answer])
            ELSE lm
    IN  save_cache(Aggregate(ri, classified, 1).regrade_info, classified, order)

\* the cache files a run may find: none, or the file an earlier run with
\* classification left, for a table of one request that staff accepted
CachedTable ==
    <<[name |-> "ann", question |-> Some(Question), grader |-> "gus",
       review |-> Some("/r/1")]>>
CachedPage ==
    [kind |-> "ok",
     open_request |-> Some([student_comment |-> Some("please regrade"),
                            staff_comment |-> Some(""),
                            created_at |-> 1, updated_at |-> MaxTime]),
     closed_requests |-> <<>>, score |-> MaxPoints, weight |-> MaxPoints]
CachedAnswer == [labels |-> <<"accepted", "rejected">>, scores |-> <<THRESHOLD, 100 - THRESHOLD>>]
CacheFiles ==
    {None, EarlierRun(CachedTable, [l \in Links |-> CachedPage], TRUE, CachedAnswer)}

-----------------------------------------------------------------------------
(* analyze.py: main *)

Init ==
    /\ args \in Args
    /\ cache_file \in CacheFiles
    /\ pc = "start"
    /\ content = <<>>
    /\ regrade_info = <<>>
    /\ link_map = EmptyLinkMap
    /\ link_order = <<>>
    /\ loaded_from_cache = FALSE
    /\ review_links = {}
    /\ links = <<>>
    /\ futures = <<>>
    /\ gathered = 0
    /\ served = <<>>
    /\ completed = <<>>
    /\ CLASSIFIER = None
    /\ classifier_results = <<>>
    /\ results = <<>>
    /\ staff_stats = EmptyDict
    /\ raised = None
    /\ cache_log = <<>>

\* refresh_cache is not looked at: an existing file is loaded
CacheHit_IgnoresRefresh ==
    /\ pc = "start"
    /\ args.cache_folder
    /\ check_cache(cache_file)
    /\ regrade_info' = load_cache(cache_file).regrade_info
    /\ link_map' = load_cache(cache_file).link_map
    /\ link_order' = load_cache(cache_file).link_order
    /\ loaded_from_cache' = TRUE
    /\ pc' = "report"
    /\ cache_log' = cache_log \o <<"check", "read">>
    /\ UNCHANGED <<args, cache_file, review_links, links, futures, gathered,
                   served, completed, CLASSIFIER, classifier_results, results,
                   staff_stats, raised, content>>

\* save_cache is called after the if/else, on a cache hit too
CacheHit_ThenSaves ==
    /\ pc = "start"
    /\ args.cache_folder /\ ~args.refresh_cache
    /\ check_cache(cache_file)
    /\ regrade_info' = load_cache(cache_file).regrade_info
    /\ link_map' = load_cache(cache_file).link_map
    /\ link_order' = load_cache(cache_file).link_order
    /\ loaded_from_cache' = TRUE
    /\ cache_log' = cache_log \o <<"check", "read">>
    /\ pc' = "save"
    /\ UNCHANGED <<args, cache_file, review_links, links, futures, gathered,
                   served, completed, CLASSIFIER, classifier_results, results,
                   staff_stats, raised, content>>

\* lines 270-285: the cache is consulted, found and loaded
CacheHit ==
    /\ pc = "start"
    /\ args.cache_folder /\ ~args.refresh_cache
    /\ check_cache(cache_file)
    /\ regrade_info' = load_cache(cache_file).regrade_info
    /\ link_map' = load_cache(cache_file).link_map
    /\ link_order' = load_cache(cache_file).link_order
    /\ loaded_from_cache' = TRUE
    /\ pc' = "report"
    /\ cache_log' = cache_log \o <<"check", "read">>
    /\ UNCHANGED <<args, cache_file, review_links, links, futures, gathered,
                   served, completed, CLASSIFIER, classifier_results, results,
                   staff_stats, raised, content>>

\* lines 270-290: no cache folder, a forced refresh, or no file in the folder
CacheMiss ==
    /\ pc = "start"
    /\ ~(args.cache_folder /\ ~args.refresh_cache /\ check_cache(cache_file))
    /\ pc' = "fetch"
    /\ cache_log' = IF args.cache_folder /\ ~args.refresh_cache
                    THEN Append(cache_log, "check")
                    ELSE cache_log
    /\ UNCHANGED <<args, cache_file, regrade_info, link_map, link_order,
                   loaded_from_cache, review_links, links, futures, gathered,
                   served, completed, CLASSIFIER, classifier_results, results,
                   staff_stats, raised, content>>

\* lines 292-313: log in, fetch the regrade requests page, parse its table
\* and compile the review links of the students that pass the cutoff
FetchSummaryOn(tables) ==
    /\ pc = "fetch"
    /\ \E table \in tables :
        /\ content' = table
        /\ regrade_info' = parse_regrade_page(table)
        /\ review_links' =
               ReviewLinks(regrade_info', args.metric, args.min_requests)
    /\ pc' = "collect"
    /\ UNCHANGED <<args, cache_file, link_map, link_order, loaded_from_cache,
                   links, futures, gathered, served, completed, CLASSIFIER,
                   classifier_results, results, staff_stats, raised,
                   cache_log>>

FetchSummary == FetchSummaryOn(SiteTables)

\* lines 292-297: the login fails (RuntimeError) or the page is not served
\* (the assert on response.ok)
FetchSummaryFails ==
    /\ pc = "fetch"
    /\ pc' = "failed"
    /\ raised' = Some("RuntimeError")
    /\ UNCHANGED <<args, cache_file, regrade_info, link_map, link_order,
                   loaded_from_cache, review_links, links, futures, gathered,
                   served, completed, CLASSIFIER, classifier_results, results,
                   staff_stats, cache_log, content>>

\* get_all_review_data, lines 124-126: the pool is made and pool.map submits
\* one call per link, in the iteration order of the set
StartCollect ==
    /\ pc = "collect"
    /\ args.num_processes > 0
    /\ \E order \in Orderings(review_links) :
        /\ links' = order
        /\ futures' = [i \in 1..Len(order) |-> Pending]
        /\ served' = [i \in 1..Len(order) |-> None]
    /\ completed' = <<>>
    /\ link_map' = EmptyLinkMap
    /\ link_order' = <<>>
    /\ gathered' = 0
    /\ pc' = "gather"
    /\ content' = <<>>
    /\ UNCHANGED <<args, cache_file, regrade_info, loaded_from_cache,
                   review_links, CLASSIFIER, classifier_results, results,
                   staff_stats, raised, cache_log>>

\* line 124: ProcessPoolExecutor(max_workers) raises ValueError unless
\* max_workers > 0
PoolRejected ==
    /\ pc = "collect"
    /\ args.num_processes <= 0
    /\ pc' = "failed"
    /\ raised' = Some("ValueError")
    /\ UNCHANGED <<args, cache_file, regrade_info, link_map, link_order,
                   loaded_from_cache, review_links, links, futures, gathered,
                   served, completed, CLASSIFIER, classifier_results, results,
                   staff_stats, cache_log, content>>

NumRunning == Cardinality({i \in 1..Len(futures) : futures[i] = Running})

\* a free worker process takes the oldest call still queued
WorkerStart ==
    /\ pc = "gather"
    /\ NumRunning < args.num_processes
    /\ \E i \in 1..Len(futures) :
        /\ futures[i] = Pending
        /\ \A j \in 1..(i - 1) : futures[j] # Pending
        /\ futures' = [futures EXCEPT ![i] = Running]
    /\ UNCHANGED <<args, cache_file, pc, regrade_info, link_map, link_order,
                   loaded_from_cache, review_links, links, gathered, served,
                   completed, CLASSIFIER, classifier_results, results,
                   staff_stats, raised, cache_log, content>>

\* a worker's call get_review_data(cookies, links[i]) ends, on the page the
\* site served it
WorkerFinishOn(i, pages) ==
    /\ pc = "gather"
    /\ futures[i] = Running
    /\ \E page \in pages :
        /\ futures' = [futures EXCEPT
                          ![i] = Finished(get_review_data(links[i], page))]
        /\ served' = [served EXCEPT ![i] = Some(page)]
    /\ completed' = Append(completed, i)
    /\ UNCHANGED <<args, cache_file, pc, regrade_info, link_map, link_order,
                   loaded_from_cache, review_links, links, gathered,
                   CLASSIFIER, classifier_results, results, staff_stats,
                   raised, cache_log, content>>

WorkerFinish(i) == WorkerFinishOn(i, SitePages)

\* d = {key: value}: the dict is rebound, the earlier items are lost
SetItem_Rebind(d, key, value) == [k \in {key} |-> value]

\* d[key] = value on a dict
SetItem(d, key, value) ==
    [k \in DOMAIN d \cup {key} |-> IF k = key THEN value ELSE d[k]]

\* the next future of the map iterator, in submission order
NextFuture == futures[gathered + 1]

\* lines 128-131: the for loop takes the next result, in submission order,
\* once its call has finished: link_map[result["link"]] = result
Gather ==
    /\ pc = "gather"
    /\ gathered < Len(futures)
    /\ NextFuture.state = "finished"
    /\ ~NextFuture.outcome.raised
    /\ LET result == NextFuture.outcome.value
       IN  /\ link_map' = SetItem(link_map, result.link, result)
           /\ link_order' = IF result.link \in DOMAIN link_map THEN link_order
                            ELSE Append(link_order, result.link)
    /\ gathered' = gathered + 1
    /\ UNCHANGED <<args, cache_file, pc, regrade_info, loaded_from_cache,
                   review_links, links, futures, served, completed,
                   CLASSIFIER, classifier_results, results, staff_stats,
                   raised, cache_log, content>>

\* lines 128-131: the map iterator re-raises the exception of a call; nothing
\* in get_all_review_data or main catches it
GatherRaises ==
    /\ pc = "gather"
    /\ gathered < Len(futures)
    /\ NextFuture.state = "finished"
    /\ NextFuture.outcome.raised
    /\ pc' = "failed"
    /\ raised' = Some(NextFuture.outcome.error)
    /\ UNCHANGED <<args, cache_file, regrade_info, link_map, link_order,
                   loaded_from_cache, review_links, links, futures, gathered,
                   served, completed, CLASSIFIER, classifier_results, results,
                   staff_stats, cache_log, content>>

\* the return statement is in the body of the for loop
CollectReturn_InsideLoop ==
    /\ pc = "gather"
    /\ gathered = Len(futures) \/ gathered >= 1
    /\ links' = <<>>
    /\ futures' = <<>>
    /\ served' = <<>>
    /\ completed' = <<>>
    /\ gathered' = 0
    /\ pc' = "classify"
    /\ UNCHANGED <<args, cache_file, regrade_info, link_map, link_order,
                   loaded_from_cache, review_links, CLASSIFIER,
                   classifier_results, results, staff_stats, raised,
                   cache_log, content>>

\* line 133: the iterator is exhausted and get_all_review_data returns
\* link_map; its locals (the pool, the iterator) go with the return
CollectReturn ==
    /\ pc = "gather"
    /\ gathered = Len(futures)
    /\ links' = <<>>
    /\ futures' = <<>>
    /\ served' = <<>>
    /\ completed' = <<>>
    /\ gathered' = 0
    /\ pc' = "classify"
    /\ UNCHANGED <<args, cache_file, regrade_info, link_map, link_order,
                   loaded_from_cache, review_links, CLASSIFIER,
                   classifier_results, results, staff_stats, raised,
                   cache_log, content>>

\* the classify argument is not looked at
ClassifyCall_IgnoresToggle ==
    /\ pc = "classify"
    /\ CLASSIFIER' = Some("pipeline")
    /\ pc' = "classifier"
    /\ UNCHANGED <<args, cache_file, regrade_info, link_map, link_order,
                   loaded_from_cache, review_links, links, futures, gathered,
                   served, completed, classifier_results, results,
                   staff_stats, raised, cache_log, content>>

\* lines 321-323, 181-194: with classify on, initialize_classifier sets the
\* global and modify_with_classifications calls classify_responses on the
\* texts of the staff messages
ClassifyCall ==
    /\ pc = "classify"
    /\ args.classify
    /\ CLASSIFIER' = Some("pipeline")
    /\ pc' = "classifier"
    /\ UNCHANGED <<args, cache_file, regrade_info, link_map, link_order,
                   loaded_from_cache, review_links, links, futures, gathered,
                   served, completed, classifier_results, results,
                   staff_stats, raised, cache_log, content>>

\* classify_responses, lines 150-172: the classifier answers the batch and
\* the booleans are returned
ClassifyResponses ==
    /\ pc = "classifier"
    /\ CLASSIFIER # None
    /\ \E answer \in ClassifierOutputs(
                       TextOnly(DataToClassify(link_order, link_map))) :
        /\ classifier_results' = answer
        /\ results' = classify_responses(answer)
    /\ pc' = "label"
    /\ UNCHANGED <<args, cache_file, regrade_info, link_map, link_order,
                   loaded_from_cache, review_links, links, futures, gathered,
                   served, completed, CLASSIFIER, staff_stats, raised,
                   cache_log, content>>

\* modify_with_classifications, lines 196-236: the labels with their
\* overrides, then the outcome of each record (results stays as the record of
\* what classify_responses returned)
ApplyClassifications ==
    /\ pc = "label"
    /\ Len(DataToClassify(link_order, link_map)) = Len(results)
    /\ link_map' = LabelAndPropagate(link_order, link_map, results)
    /\ classifier_results' = <<>>
    /\ pc' = "aggregate"
    /\ UNCHANGED <<args, cache_file, regrade_info, link_order,
                   loaded_from_cache, review_links, links, futures, gathered,
                   served, completed, CLASSIFIER, results, staff_stats,
                   raised, cache_log, content>>

\* lines 37-49, 322: the import of transformers or the load of the model
\* raises; nothing in main catches it
ClassifierUnavailable ==
    /\ pc = "classify"
    /\ args.classify
    /\ pc' = "failed"
    /\ raised' = Some("ImportError")
    /\ UNCHANGED <<args, cache_file, regrade_info, link_map, link_order,
                   loaded_from_cache, review_links, links, futures, gathered,
                   served, completed, CLASSIFIER, classifier_results, results,
                   staff_stats, cache_log, content>>

\* line 321 with classify off
SkipClassify ==
    /\ pc = "classify"
    /\ ~args.classify
    /\ pc' = "aggregate"
    /\ UNCHANGED <<args, cache_file, regrade_info, link_map, link_order,
                   loaded_from_cache, review_links, links, futures, gathered,
                   served, completed, CLASSIFIER, classifier_results, results,
                   staff_stats, raised, cache_log, content>>

\* lines 325-339: the per-student counts; a KeyError ends the run
AggregateStudents ==
    /\ pc = "aggregate"
    /\ LET r == Aggregate(regrade_info, link_map, 1)
       IN  /\ regrade_info' = r.regrade_info
           /\ pc' = IF r.raised THEN "failed" ELSE "save"
           /\ raised' = IF r.raised THEN Some("KeyError") ELSE None
    /\ UNCHANGED <<args, cache_file, link_map, link_order, loaded_from_cache,
                   review_links, links, futures, gathered, served, completed,
                   CLASSIFIER, classifier_results, results, staff_stats,
                   cache_log, content>>

\* lines 341-343
SaveCache ==
    /\ pc = "save"
    /\ cache_file' = IF args.cache_folder
                     THEN save_cache(regrade_info, link_map, link_order)
                     ELSE cache_file
    /\ pc' = "report"
    /\ cache_log' = IF args.cache_folder THEN Append(cache_log, "write")
                    ELSE cache_log
    /\ UNCHANGED <<args, regrade_info, link_map, link_order,
                   loaded_from_cache, review_links, links, futures, gathered,
                   served, completed, CLASSIFIER, classifier_results, results,
                   staff_stats, raised, content>>

\* lines 345-366: the report, with the staff statistics
Report ==
    /\ pc = "report"
    /\ LET r == print_staff_stats(regrade_info, link_map)
       IN  /\ staff_stats' = r.staff_stats
           /\ pc' = IF r.raised THEN "failed" ELSE "done"
           /\ raised' = IF r.raised THEN Some("KeyError") ELSE None
    /\ UNCHANGED <<args, cache_file, regrade_info, link_map, link_order,
                   loaded_from_cache, review_links, links, futures, gathered,
                   served, completed, CLASSIFIER, classifier_results, results,
                   cache_log, content>>

Next ==
    \/ CacheHit
    \/ CacheMiss
    \/ FetchSummary
    \/ FetchSummaryFails
    \/ StartCollect
    \/ PoolRejected
    \/ WorkerStart
    \/ \E i \in 1..Len(futures) : WorkerFinish(i)
    \/ Gather
    \/ GatherRaises
    \/ CollectReturn
    \/ ClassifyCall
    \/ ClassifyResponses
    \/ ApplyClassifications
    \/ ClassifierUnavailable
    \/ SkipClassify
    \/ AggregateStudents
    \/ SaveCache
    \/ Report

Spec == Init /\ [][Next]_vars

-----------------------------------------------------------------------------
(* get_all_review_data on its own: main at line 316, about to collect any  *)
(* set of up to three unique links with any pool size                      *)

CollectHrefs == Hrefs \cup {"/r/3"}

\* a table of one student that asks for exactly these review links
TableFor(hrefs) ==
    LET o == CHOOSE o \in Orderings(hrefs) : TRUE
    IN  [i \in 1..Len(o) |->
            [name |-> "ann", question |-> Some(Question),
             grader |-> GraderOf(o[i]), review |-> Some(o[i])]]

\* main's arguments where a component is studied on its own
PlainArgs ==
    {a \in Args : /\ a.classify /\ ~a.refresh_cache /\ ~a.cache_folder
                  /\ a.min_requests = 0 /\ a.metric = "total"}

InitCollect ==
    /\ args \in PlainArgs
    /\ cache_file = None
    /\ pc = "collect"
    /\ \E hrefs \in SUBSET CollectHrefs :
        /\ content = TableFor(hrefs)
        /\ regrade_info = parse_regrade_page(content)
    /\ review_links = ReviewLinks(regrade_info, args.metric, args.min_requests)
    /\ link_map = EmptyLinkMap
    /\ link_order = <<>>
    /\ loaded_from_cache = FALSE
    /\ links = <<>>
    /\ futures = <<>>
    /\ gathered = 0
    /\ served = <<>>
    /\ completed = <<>>
    /\ CLASSIFIER = None
    /\ classifier_results = <<>>
    /\ results = <<>>
    /\ staff_stats = EmptyDict
    /\ raised = None
    /\ cache_log = <<>>

NextCollect ==
    \/ StartCollect
    \/ PoolRejected
    \/ WorkerStart
    \/ \E i \in 1..Len(futures) : WorkerFinish(i)
    \/ Gather
    \/ GatherRaises
    \/ CollectReturn

SpecCollect == InitCollect /\ [][NextCollect]_vars

\* the for loop of get_all_review_data is exhausted: link_map is what the
\* function returns
CollectDone == pc = "gather" /\ gathered = Len(futures)

\* C1: whatever the order in which the calls finish, the map that
\* get_all_review_data returns has exactly the input links as its keys, each
\* once, and maps each link to the record its own call built from the page
\* the site served for it.
C1_CollectedMapIsExact ==
    /\ CollectDone =>
          /\ DOMAIN link_map = review_links
          /\ Range(link_order) = review_links
          /\ Len(link_order) = Cardinality(review_links)
          /\ \A i \in 1..Len(links) :
                /\ link_map[links[i]].link = links[i]
                /\ link_map[links[i]] = futures[i].outcome.value
                /\ served[i] # None
                /\ link_map[links[i]].weight =
                       (IF The(served[i]).kind = "nodiv" THEN 0
                        ELSE The(served[i]).weight)
    /\ pc = "classify" => DOMAIN link_map = review_links

\* a return after three calls of which a later submitted one finished first
C1_Witness ==
    /\ CollectDone
    /\ Len(futures) = 3
    /\ completed[1] # 1
    /\ Cardinality({link_map[l].score : l \in DOMAIN link_map}) > 1

\* C2: an error of one link's call (a timeout, a page that cannot be
\* parsed) does not abort the collection: the run is not ended by it.
C2_LinkErrorDoesNotAbort ==
    \A i \in 1..Len(futures) :
        (futures[i].state = "finished" /\ futures[i].outcome.raised)
            => pc # "failed"

-----------------------------------------------------------------------------
(* modify_with_classifications on its own: main at line 321 with classify  *)
(* on, holding any link map the collector can return for one or two links  *)

\* the conversations of the first link: an open and closed requests, with or
\* without comments, at any instants, for any points
RichPages ==
    {[kind |-> "nodiv"]} \cup
    {p \in OkPages :
        /\ p.open_request # None => The(p.open_request).staff_comment # Some(" ")
        /\ \A i \in 1..Len(p.closed_requests) :
              p.closed_requests[i].staff_comment # Some(" ")
        /\ p.weight \in {0, MaxPoints}}

\* the pages of a link among the hrefs of a table: the first one is rich
PagesOf(href) ==
    IF href = "/r/1" THEN RichPages ELSE {p \in SitePages : p.kind = "ok"}

\* every way to serve one page of PagesOf for each of the hrefs
RECURSIVE PageChoices(_)
PageChoices(hrefs) ==
    IF hrefs = {} THEN {[l \in {} |-> [kind |-> "nodiv"]]}
    ELSE LET h == CHOOSE h \in hrefs : TRUE
         IN  {[l \in DOMAIN f \cup {urljoin(BASE_URL, h)} |->
                  IF l = urljoin(BASE_URL, h) THEN p ELSE f[l]] :
                  f \in PageChoices(hrefs \ {h}), p \in PagesOf(h)}

\* what the collector returns for these hrefs on some pages, in some order
InitCollected(hrefs, pages) ==
    /\ content = <<>>
    /\ regrade_info = parse_regrade_page(TableFor(hrefs))
    /\ review_links = ReviewLinks(regrade_info, args.metric, args.min_requests)
    /\ link_order \in Orderings(review_links)
    /\ link_map = CollectAll(link_order, pages)

InitModify ==
    /\ args \in {a \in PlainArgs : a.num_processes = 1}
    /\ cache_file = None
    /\ pc = "classify"
    /\ \E hrefs \in SUBSET Hrefs :
        \E pages \in PageChoices(hrefs) : InitCollected(hrefs, pages)
    /\ loaded_from_cache = FALSE
    /\ links = <<>>
    /\ futures = <<>>
    /\ gathered = 0
    /\ served = <<>>
    /\ completed = <<>>
    /\ CLASSIFIER = None
    /\ classifier_results = <<>>
    /\ results = <<>>
    /\ staff_stats = EmptyDict
    /\ raised = None
    /\ cache_log = <<>>

NextModify ==
    \/ ClassifyCall
    \/ ClassifierUnavailable
    \/ ClassifyResponses
    \/ ApplyClassifications

SpecModify == InitModify /\ [][NextModify]_vars

\* the indices of the staff messages of a conversation
StaffIndices(reviews) == {i \in 1..Len(reviews) : reviews[i].user = "staff"}

\* the place in link_order of a key of link_map
PlaceOf(link) == CHOOSE k \in 1..Len(link_order) : link_order[k] = link

\* the position in the classifier's batch of the staff message idx of a link:
\* the staff messages of the links before it, then those of the link up to idx
BatchPosition(link, idx) ==
    Cardinality({<<k, j>> \in (1..Len(link_order)) \X (1..(2 * (MaxClosed + 1))) :
                    /\ k < PlaceOf(link)
                    /\ j \in StaffIndices(link_map[link_order[k]].reviews)})
    + Cardinality({j \in StaffIndices(link_map[link].reviews) : j <= idx})

\* modify_with_classifications has returned
Classified == pc = "aggregate" /\ CLASSIFIER # None

\* C3: after modify_with_classifications, the label of every staff message
\* is true when its record has weight > 0 and score >= weight, false when
\* weight > 0 and score <= 0 (and score < weight), and otherwise the
\* tentative label classify_responses returned for that message.
C3_OverrideDecidesLabel ==
    Classified =>
        \A link \in DOMAIN link_map :
            \A idx \in StaffIndices(link_map[link].reviews) :
                LET r == link_map[link]
                    label == r.reviews[idx].accepted
                    tentative == results[BatchPosition(link, idx)]
                IN  /\ (r.weight > 0 /\ r.score >= r.weight)
                           => label = Some(TRUE)
                    /\ (r.weight > 0 /\ r.score < r.weight /\ r.score <= 0)
                           => label = Some(FALSE)
                    /\ (r.weight <= 0 \/ (0 < r.score /\ r.score < r.weight))
                           => label = Some(tentative)

\* two links: on one the full score overrides a tentative false, on the
\* other (a partial score) a tentative true passes through
C3_Witness ==
    /\ Classified
    /\ \E link \in DOMAIN link_map :
        \E idx \in StaffIndices(link_map[link].reviews) :
            /\ link_map[link].weight > 0
            /\ link_map[link].score >= link_map[link].weight
            /\ ~results[BatchPosition(link, idx)]
            /\ link_map[link].reviews[idx].accepted = Some(TRUE)
    /\ \E link \in DOMAIN link_map :
        \E idx \in StaffIndices(link_map[link].reviews) :
            /\ link_map[link].weight > 0
            /\ 0 < link_map[link].score
            /\ link_map[link].score < link_map[link].weight
            /\ results[BatchPosition(link, idx)]
            /\ link_map[link].reviews[idx].accepted = Some(TRUE)

\* the staff message whose label a record's outcome takes: the first one, in
\* list order, among those with the largest timestamp
LastStaff(reviews) ==
    LET staff == StaffIndices(reviews)
        latest == {i \in staff :
                      \A j \in staff : reviews[j].timestamp <= reviews[i].timestamp}
    IN  CHOOSE i \in latest : \A j \in latest : i <= j

\* C4: after propagation a record's outcome is the label of its
\* chronologically last staff message, the earliest seen one among several
\* with the largest timestamp, and it is None exactly when the record has no
\* staff message.
C4_OutcomeIsLastStaffLabel ==
    Classified =>
        \A link \in DOMAIN link_map :
            LET r == link_map[link]
            IN  /\ (r.accepted = None) <=> (StaffIndices(r.reviews) = {})
                /\ StaffIndices(r.reviews) # {}
                       => r.accepted = r.reviews[LastStaff(r.reviews)].accepted

\* a record with two staff messages of one timestamp and different labels,
\* and the outcome is the label of the first
C4_Witness ==
    /\ Classified
    /\ \E link \in DOMAIN link_map :
        LET r == link_map[link]
        IN  \E i, j \in StaffIndices(r.reviews) :
                /\ i < j
                /\ r.reviews[i].timestamp = r.reviews[j].timestamp
                /\ r.reviews[i].accepted # r.reviews[j].accepted
                /\ r.accepted = r.reviews[i].accepted

\* C7: after modify_with_classifications every staff message of every
\* record carries a boolean label and no student message carries one.
C7_StaffLabelledStudentsNot ==
    Classified =>
        \A link \in DOMAIN link_map :
            \A i \in 1..Len(link_map[link].reviews) :
                LET m == link_map[link].reviews[i]
                IN  IF m.user = "staff"
                    THEN m.accepted \in {Some(TRUE), Some(FALSE)}
                    ELSE m.accepted = None

\* two records with a staff message each, one of them blank, next to student
\* messages
C7_Witness ==
    /\ Classified
    /\ Cardinality(DOMAIN link_map) = 2
    /\ \A link \in DOMAIN link_map :
        /\ StaffIndices(link_map[link].reviews) # {}
        /\ \E i \in 1..Len(link_map[link].reviews) :
              link_map[link].reviews[i].user = "student"
    /\ \E link \in DOMAIN link_map :
        \E i \in StaffIndices(link_map[link].reviews) :
            link_map[link].reviews[i].text = ""

\* C8: classify_responses returns one boolean per input, in input order,
\* the i-th true exactly when the top label of the i-th ranked result is
\* "accepted" with a confidence of at least 0.6.
C8_ResultsFollowTopLabel ==
    pc = "label" =>
        /\ Len(results) = Len(TextOnly(DataToClassify(link_order, link_map)))
        /\ Len(results) = Len(classifier_results)
        /\ \A i \in 1..Len(results) :
              LET top == classifier_results[i].labels[1]
                  confidence == classifier_results[i].scores[1]
              IN  /\ results[i] <=> (top = "accepted" /\ confidence >= 60)
                  /\ top = "rejected" => ~results[i]
                  /\ (top = "accepted" /\ confidence < 60) => ~results[i]

\* a batch of three with an accepted at 0.6, an accepted below it and a
\* rejected
C8_Witness ==
    /\ pc = "label"
    /\ Len(results) = 3
    /\ classifier_results[1].labels[1] = "accepted"
    /\ classifier_results[1].scores[1] = 59
    /\ ~results[1]
    /\ classifier_results[2].labels[1] = "accepted"
    /\ classifier_results[2].scores[1] = 60
    /\ results[2]
    /\ classifier_results[3].labels[1] = "rejected"
    /\ ~results[3]

-----------------------------------------------------------------------------
(* The counting on its own: main at line 325, holding any summary table of  *)
(* MaxRows rows and a link map whose records are unanswered, accepted or    *)
(* rejected                                                                *)

\* a page for each outcome: no staff comment, an answer with the full score,
\* an answer with no points
OutcomePages ==
    {p \in SitePages :
        /\ p.kind = "ok"
        /\ \/ The(p.open_request).staff_comment = None
           \/ p.score # 1}

RECURSIVE OutcomeChoices(_)
OutcomeChoices(ls) ==
    IF ls = {} THEN {[l \in {} |-> [kind |-> "nodiv"]]}
    ELSE LET h == CHOOSE h \in ls : TRUE
         IN  {[l \in DOMAIN f \cup {h} |-> IF l = h THEN p ELSE f[l]] :
                  f \in OutcomeChoices(ls \ {h}), p \in OutcomePages}

AggregateArgs ==
    {a \in Args : ~a.refresh_cache /\ ~a.cache_folder /\ a.num_processes = 1}

InitAggregate ==
    /\ args \in AggregateArgs
    /\ cache_file = None
    /\ pc = "aggregate"
    /\ content = <<>>
    /\ \E table \in AllTables : regrade_info = parse_regrade_page(table)
    /\ review_links = ReviewLinks(regrade_info, args.metric, args.min_requests)
    /\ link_order \in Orderings(review_links)
    /\ \E pages \in OutcomeChoices(review_links) :
        LET collected == CollectAll(link_order, pages)
            texts == TextOnly(DataToClassify(link_order, collected))
        IN  /\ link_map =
                  IF args.classify
                  THEN LabelAndPropagate(link_order, collected,
                                         [i \in 1..Len(texts) |-> FALSE])
                  ELSE collected
            /\ results = IF args.classify THEN [i \in 1..Len(texts) |-> FALSE]
                         ELSE <<>>
    /\ CLASSIFIER = IF args.classify THEN Some("pipeline") ELSE None
    /\ loaded_from_cache = FALSE
    /\ links = <<>>
    /\ futures = <<>>
    /\ gathered = 0
    /\ served = <<>>
    /\ completed = <<>>
    /\ classifier_results = <<>>
    /\ staff_stats = EmptyDict
    /\ raised = None
    /\ cache_log = <<>>

NextAggregate ==
    \/ AggregateStudents
    \/ SaveCache
    \/ Report

SpecAggregate == InitAggregate /\ [][NextAggregate]_vars

\* the counting loop of main has run to its end
Aggregated == pc \in {"save", "report", "done"}

\* the requests of student i whose record's outcome is in a set
RequestsWithOutcome(i, outcomes) ==
    {k \in 1..Len(regrade_info[i].regrades) :
        link_map[regrade_info[i].regrades[k].review_link].accepted \in outcomes}

\* C5: after the counting loop, every student's num_responded is the number
\* of their requests whose record has an outcome, and num_accepted the number
\* of those whose outcome is true; a request whose record's outcome is None
\* adds to neither.
C5_StudentCounts ==
    Aggregated =>
        \A i \in 1..Len(regrade_info) :
            /\ regrade_info[i].num_responded =
                   Cardinality(RequestsWithOutcome(i, {Some(TRUE), Some(FALSE)}))
            /\ regrade_info[i].num_accepted =
                   Cardinality(RequestsWithOutcome(i, {Some(TRUE)}))
            /\ RequestsWithOutcome(i, {None}) = DOMAIN regrade_info[i].regrades
                   => /\ regrade_info[i].num_responded = 0
                      /\ regrade_info[i].num_accepted = 0

\* one student with an unanswered and an accepted request, or two students
\* of which one was accepted and one rejected
C5_Witness ==
    /\ Aggregated
    /\ \/ \E i \in 1..Len(regrade_info) :
            /\ RequestsWithOutcome(i, {None}) # {}
            /\ RequestsWithOutcome(i, {Some(TRUE)}) # {}
            /\ regrade_info[i].num_responded = 1
            /\ regrade_info[i].num_accepted = 1
       \/ \E i, j \in 1..Len(regrade_info) :
            /\ RequestsWithOutcome(i, {Some(FALSE)}) # {}
            /\ regrade_info[i].num_responded = 1
            /\ regrade_info[i].num_accepted = 0
            /\ regrade_info[j].num_accepted = 1

\* the requests, of all students, that name a grader and whose record's
\* outcome is in a set
RequestsOfGrader(g, outcomes) ==
    {ik \in (1..Len(regrade_info)) \X (1..MaxRows) :
        /\ ik[2] <= Len(regrade_info[ik[1]].regrades)
        /\ regrade_info[ik[1]].regrades[ik[2]].grader = g
        /\ link_map[regrade_info[ik[1]].regrades[ik[2]].review_link].accepted
               \in outcomes}

\* C6: the staff statistics have one entry per grader named by a request;
\* its num_requested is the number of requests naming the grader, whatever
\* their outcome, num_responded the number of those with an outcome, and
\* num_accepted the number with outcome true, so that
\* num_accepted <= num_responded <= num_requested.
C6_StaffCounts ==
    pc = "done" =>
        /\ DOMAIN staff_stats =
               {g \in Graders : RequestsOfGrader(g, {None, Some(TRUE), Some(FALSE)}) # {}}
        /\ \A g \in DOMAIN staff_stats :
            /\ staff_stats[g].num_requested =
                   Cardinality(RequestsOfGrader(g, {None, Some(TRUE), Some(FALSE)}))
            /\ staff_stats[g].num_responded =
                   Cardinality(RequestsOfGrader(g, {Some(TRUE), Some(FALSE)}))
            /\ staff_stats[g].num_accepted =
                   Cardinality(RequestsOfGrader(g, {Some(TRUE)}))
            /\ staff_stats[g].num_accepted <= staff_stats[g].num_responded
            /\ staff_stats[g].num_responded <= staff_stats[g].num_requested

\* a grader named by the requests of two students, one of them unanswered
\* and one rejected
C6_Witness ==
    /\ pc = "done"
    /\ Len(regrade_info) = 2
    /\ \E g \in DOMAIN staff_stats :
        /\ staff_stats[g].num_requested = 2
        /\ staff_stats[g].num_responded = 1
        /\ staff_stats[g].num_accepted = 0

-----------------------------------------------------------------------------
(* The whole run *)

\* every record's outcome is None and every student's counts are 0
NothingClassified ==
    /\ \A l \in DOMAIN link_map : link_map[l].accepted = None
    /\ \A i \in 1..Len(regrade_info) :
          /\ regrade_info[i].num_responded = 0
          /\ regrade_info[i].num_accepted = 0

\* C9 as stated: with classify off, whatever the cache holds, at the end of
\* the run every record's outcome is None and every student's num_responded
\* and num_accepted are 0.
C9_ClassifyOffAnyCache ==
    (pc = "done" /\ ~args.classify) => NothingClassified

\* C9: with classify off, in a run that does not load its data from the
\* cache file, the classifier is never initialized or called, and every
\* record's outcome is None and every student's num_responded and
\* num_accepted are 0 throughout the run and at its end.
C9_ClassifyOffWithoutCacheHit ==
    (~args.classify /\ ~loaded_from_cache) =>
        /\ NothingClassified
        /\ CLASSIFIER = None
        /\ results = <<>>
        /\ pc \notin {"classifier", "label"}

\* the end of a run with classify off that refreshed an existing cache file
\* and collected a record with a staff message
C9_Witness ==
    /\ pc = "done"
    /\ ~args.classify
    /\ ~loaded_from_cache
    /\ args.refresh_cache
    /\ \E l \in DOMAIN link_map : StaffIndices(link_map[l].reviews) # {}
    /\ \E i \in 1..Len(regrade_info) : regrade_info[i].regrades # <<>>

\* C10: when the classifier cannot be initialized the run does not fail: it
\* is not ended by the exception of initialize_classifier.
C10_UnavailableClassifierDoesNotFail ==
    ~(pc = "failed" /\ raised = Some("ImportError"))

\* the requests of student i whose record has no messages
RequestsWithoutMessages(i) ==
    {k \in 1..Len(regrade_info[i].regrades) :
        /\ regrade_info[i].regrades[k].review_link \in DOMAIN link_map
        /\ link_map[regrade_info[i].regrades[k].review_link].reviews = <<>>}

\* C11: a page without the data div gives its link the record with no
\* messages, score 0, weight 0 and outcome None, and the call does not raise;
\* a record without messages keeps the outcome None through classification,
\* and after the counting loop the requests that join such a record are
\* counted in neither num_responded nor num_accepted.
C11_MissingPayloadGivesEmptyRecord ==
    /\ \A i \in 1..Len(futures) :
          (served[i] # None /\ The(served[i]).kind = "nodiv") =>
              /\ futures[i].state = "finished"
              /\ ~futures[i].outcome.raised
              /\ futures[i].outcome.value =
                     [link |-> links[i], reviews |-> <<>>, score |-> 0,
                      weight |-> 0, accepted |-> None]
              /\ (i <= gathered => link_map[links[i]] = futures[i].outcome.value)
    /\ \A l \in DOMAIN link_map :
          link_map[l].reviews = <<>> => link_map[l].accepted = None
    /\ Aggregated =>
          \A i \in 1..Len(regrade_info) :
              /\ regrade_info[i].num_responded
                     <= Len(regrade_info[i].regrades)
                            - Cardinality(RequestsWithoutMessages(i))
              /\ regrade_info[i].num_accepted <= regrade_info[i].num_responded

\* the end of a classifying run in which one student asked about two links:
\* one page had no data div, the other got an outcome
C11_Witness ==
    /\ pc = "done"
    /\ ~loaded_from_cache
    /\ CLASSIFIER # None
    /\ \E i \in 1..Len(regrade_info) :
          /\ Len(regrade_info[i].regrades) = 2
          /\ Cardinality(RequestsWithoutMessages(i)) = 1
          /\ regrade_info[i].num_responded = 1
    /\ \E l \in DOMAIN link_map :
          /\ link_map[l].reviews = <<>>
          /\ link_map[l].weight = 0

-----------------------------------------------------------------------------
(* get_review_data on its own: the collector on one link whose page holds   *)
(* any open request and any closed requests                                *)

\* the pages of any conversation, for one score and weight
ConversationPages ==
    ErrorPages \cup
    [kind : {"ok"}, open_request : {None} \cup {Some(r) : r \in Requests},
     closed_requests : SeqsUpTo(Requests, MaxClosed),
     score : {1}, weight : {MaxPoints}]

InitFetch ==
    /\ args \in {a \in PlainArgs : a.num_processes = 1}
    /\ cache_file = None
    /\ pc = "collect"
    /\ content = TableFor({"/r/1"})
    /\ regrade_info = parse_regrade_page(content)
    /\ review_links = ReviewLinks(regrade_info, args.metric, args.min_requests)
    /\ link_map = EmptyLinkMap
    /\ link_order = <<>>
    /\ loaded_from_cache = FALSE
    /\ links = <<>>
    /\ futures = <<>>
    /\ gathered = 0
    /\ served = <<>>
    /\ completed = <<>>
    /\ CLASSIFIER = None
    /\ classifier_results = <<>>
    /\ results = <<>>
    /\ staff_stats = EmptyDict
    /\ raised = None
    /\ cache_log = <<>>

NextFetch ==
    \/ StartCollect
    \/ WorkerStart
    \/ \E i \in 1..Len(futures) : WorkerFinishOn(i, ConversationPages)
    \/ Gather
    \/ GatherRaises
    \/ CollectReturn

SpecFetch == InitFetch /\ [][NextFetch]_vars

\* the messages of one request object, as they are discovered
Discovered(r) ==
    (IF r.student_comment = None THEN <<>>
     ELSE <<[user |-> "student", text |-> The(r.student_comment),
             timestamp |-> r.created_at, accepted |-> None]>>)
    \o (IF r.staff_comment = None THEN <<>>
        ELSE <<[user |-> "staff", text |-> The(r.staff_comment),
                timestamp |-> r.updated_at, accepted |-> None]>>)

\* the messages of a page in discovery order: the open request's, then each
\* closed request's in source order
RECURSIVE DiscoveredClosed(_)
DiscoveredClosed(closed_requests) ==
    IF closed_requests = <<>> THEN <<>>
    ELSE Discovered(Head(closed_requests)) \o DiscoveredClosed(Tail(closed_requests))

Discovery(page) ==
    (IF page.open_request = None THEN <<>> ELSE Discovered(The(page.open_request)))
    \o DiscoveredClosed(page.closed_requests)

\* the messages of each instant from t on, in discovery order
RECURSIVE ByInstant(_, _)
ByInstant(discovery, t) ==
    IF t > MaxTime THEN <<>>
    ELSE LET At(m) == m.timestamp = t
         IN  SelectSeq(discovery, At) \o ByInstant(discovery, t + 1)

C13_SummaryRowBounds ==
    \A i \in 1..Len(regrade_info) :
        /\ Len(regrade_info[i].regrades) <= regrade_info[i].num_comments
        /\ regrade_info[i].num_accepted <= regrade_info[i].num_responded
        /\ regrade_info[i].num_responded <= Len(regrade_info[i].regrades)
        /\ regrade_info[i].num_accepted >= 0

\* after the counting: a student with two rows on one review link, which
\* was accepted, or two students that were both answered
C13_Witness ==
    /\ Aggregated
    /\ \/ \E i \in 1..Len(regrade_info) :
            /\ regrade_info[i].num_comments = 2
            /\ Len(regrade_info[i].regrades) = 1
            /\ regrade_info[i].num_accepted = 1
            /\ regrade_info[i].num_responded = 1
       \/ /\ Len(regrade_info) = 2
          /\ \A i \in 1..2 : regrade_info[i].num_responded = 1
          /\ regrade_info[1].num_accepted = 1

\* C14: the classifier is initialized and called, and its input gathered,
\* only once get_all_review_data has returned with the record of every
\* review link in the link map; as long as the collector runs, nothing of the
\* classification exists.
C14_ClassifyAfterAllCollected ==
    /\ (pc \in {"classifier", "label"} \/ CLASSIFIER # None) =>
          /\ DOMAIN link_map = review_links
          /\ futures = <<>>
          /\ \A l \in review_links : link_map[l].link = l
    /\ pc \in {"collect", "gather"} =>
          /\ CLASSIFIER = None
          /\ classifier_results = <<>>
          /\ results = <<>>

\* the classifier has answered a batch with the staff messages of two links
C14_Witness ==
    /\ pc = "label"
    /\ Cardinality(review_links) = 2
    /\ Len(classifier_results) = 2
    /\ {DataToClassify(link_order, link_map)[j].link : j \in 1..2} = review_links

\* C15: a parallelism degree of 0 (or less) is rejected before any network
\* or classification work: such a run fetches no summary page, starts no
\* collection and does not complete.
C15_InvalidParallelismRejectedAtEntry ==
    args.num_processes <= 0 =>
        /\ regrade_info = <<>>
        /\ pc \in {"start", "fetch", "failed"}
        /\ raised \in {None, Some("ValueError")}

\* get_all_review_data has returned in this run
Collected ==
    /\ ~loaded_from_cache
    /\ pc \in {"classify", "classifier", "label", "aggregate", "save",
               "report", "done"}

\* C16: min_requests changes only what is reported: whatever its value, the
\* link map that is aggregated and saved holds the record of every review
\* link of every student, as it does with min_requests = 0, and the counting
\* loop finds the record of every request.
C16_MinRequestsLeavesStoredData ==
    /\ Collected =>
          DOMAIN link_map = UNION {LinksOf(regrade_info[i]) :
                                      i \in 1..Len(regrade_info)}
    /\ raised # Some("KeyError")

\* C17: with refresh_cache set the run never loads the cache file, also when
\* one exists; a run that gets to its report has collected the record of
\* every review link, classified every staff message when classify is on,
\* counted every student anew, and, with a cache folder, has replaced the
\* cache file by this new data; until then the file is left as it was.
C17_RefreshNeverLoads ==
    args.refresh_cache =>
        /\ ~loaded_from_cache
        /\ pc \in {"report", "done"} =>
              /\ DOMAIN link_map = review_links
              /\ DOMAIN link_map = UNION {LinksOf(regrade_info[i]) :
                                             i \in 1..Len(regrade_info)}
              /\ args.classify =>
                    /\ CLASSIFIER # None
                    /\ \A l \in DOMAIN link_map :
                          \A j \in StaffIndices(link_map[l].reviews) :
                              link_map[l].reviews[j].accepted # None
              /\ \A i \in 1..Len(regrade_info) :
                    regrade_info[i].num_responded =
                        Cardinality(RequestsWithOutcome(i, {Some(TRUE), Some(FALSE)}))
              /\ args.cache_folder =>
                    cache_file = save_cache(regrade_info, link_map, link_order)
        /\ pc \notin {"report", "done"} => cache_file \in CacheFiles

\* the end of a refreshing, classifying run that found a cache file and
\* replaced it by different data
C17_Witness ==
    /\ pc = "done"
    /\ args.refresh_cache
    /\ args.cache_folder
    /\ args.classify
    /\ cache_file \notin CacheFiles
    /\ Cardinality(DOMAIN link_map) = 2
    /\ \E l \in DOMAIN link_map : link_map[l].accepted = Some(FALSE)

\* C18: a run reads the cache file at most once, as its first step, and
\* writes it at most once, after the counting loop has finished; no write
\* comes before a read, and a run that loaded the file fetches nothing,
\* classifies nothing and writes nothing.
C18_CacheReadFirstWrittenLast ==
    /\ cache_log \in {<<>>, <<"check">>, <<"check", "read">>, <<"write">>,
                      <<"check", "write">>}
    /\ pc = "start" => cache_log = <<>>
    /\ loaded_from_cache <=> "read" \in Range(cache_log)
    /\ "read" \in Range(cache_log) =>
          /\ pc \in {"report", "done", "failed"}
          /\ review_links = {}
          /\ futures = <<>>
          /\ CLASSIFIER = None
          /\ results = <<>>
          /\ "write" \notin Range(cache_log)
          /\ cache_file \in CacheFiles
    /\ "write" \in Range(cache_log) =>
          /\ pc \in {"report", "done", "failed"}
          /\ cache_file = save_cache(regrade_info, link_map, link_order)
          /\ \A i \in 1..Len(regrade_info) :
                regrade_info[i].num_responded =
                    Cardinality(RequestsWithOutcome(i, {Some(TRUE), Some(FALSE)}))

\* the end of a run that looked for the cache file, did not find it,
\* collected and classified two links and wrote the file
C18_Witness ==
    /\ pc = "done"
    /\ cache_log = <<"check", "write">>
    /\ CLASSIFIER # None
    /\ Cardinality(DOMAIN link_map) = 2
    /\ cache_file # None

-----------------------------------------------------------------------------
(* parse_regrade_page on its own: main at line 296, about to fetch a        *)
(* summary page of any rows, with relative and absolute-path hrefs          *)

\* the rows of any summary page: the review href may be written without its
\* leading slash
PageRows ==
    [name : Names, question : {None, Some(Question)}, grader : Graders,
     review : {None} \cup {Some(h) : h \in Hrefs \cup {"r/1"}}]

InitParse ==
    /\ args \in AggregateArgs
    /\ cache_file = None
    /\ pc = "fetch"
    /\ content = <<>>
    /\ regrade_info = <<>>
    /\ review_links = {}
    /\ link_map = EmptyLinkMap
    /\ link_order = <<>>
    /\ loaded_from_cache = FALSE
    /\ links = <<>>
    /\ futures = <<>>
    /\ gathered = 0
    /\ served = <<>>
    /\ completed = <<>>
    /\ CLASSIFIER = None
    /\ classifier_results = <<>>
    /\ results = <<>>
    /\ staff_stats = EmptyDict
    /\ raised = None
    /\ cache_log = <<>>

NextParse ==
    \/ FetchSummaryOn(SeqsUpTo(PageRows, MaxRows))
    \/ FetchSummaryFails

SpecParse == InitParse /\ [][NextParse]_vars

\* the summary page has just been parsed: main is at line 304
Parsed == pc = "collect"

\* the elements of a sequence, each once, in the order of their first
\* occurrence
FirstOccurrences(seq) ==
    LET First(k) == \A j \in 1..(k - 1) : seq[j] # seq[k]
        kept == {k \in 1..Len(seq) : First(k)}
        Nth(n) == CHOOSE k \in kept : Cardinality({j \in kept : j <= k}) = n
    IN  [n \in 1..Cardinality(kept) |-> seq[Nth(n)]]

\* the rows of a student, and those of them that have both of their links
RowsOf(name) ==
    LET Named(row) == row.name = name
    IN  SelectSeq(content, Named)

LinkedRowsOf(name) ==
    LET Linked(row) == row.name = name /\ row.question # None /\ row.review # None
    IN  SelectSeq(content, Linked)

\* the absolute review link of a row
AbsoluteLink(row) ==
    IF The(row.review) \in {"/r/1", "r/1"} THEN "https://www.gradescope.com/r/1"
    ELSE "https://www.gradescope.com/r/2"

\* the regrades of every student are the distinct review links of the
\* student's rows that have both links, each once, in first-occurrence order
RegradesAreDistinctLinks ==
    /\ [i \in 1..Len(regrade_info) |-> regrade_info[i].name]
           = FirstOccurrences([k \in 1..Len(content) |-> content[k].name])
    /\ \A i \in 1..Len(regrade_info) :
          LET rows == LinkedRowsOf(regrade_info[i].name)
          IN  [k \in 1..Len(regrade_info[i].regrades) |->
                   regrade_info[i].regrades[k].review_link]
                  = FirstOccurrences([k \in 1..Len(rows) |-> AbsoluteLink(rows[k])])

\* C19 as stated: num_comments of every student is the number of raw rows of
\* the student, and regrades holds each distinct review link of those rows
\* once, in first-occurrence order.
C19_CountsEveryRawRow ==
    Parsed =>
        /\ \A i \in 1..Len(regrade_info) :
              regrade_info[i].num_comments = Len(RowsOf(regrade_info[i].name))
        /\ RegradesAreDistinctLinks

\* C19: num_comments of every student is the number of the student's rows
\* that have both a question link and a review link (a row without one of
\* them is skipped and counts nowhere), and regrades holds each distinct
\* review link of those rows once, in first-occurrence order.
C19_CountsLinkedRows ==
    Parsed =>
        /\ \A i \in 1..Len(regrade_info) :
              regrade_info[i].num_comments = Len(LinkedRowsOf(regrade_info[i].name))
        /\ RegradesAreDistinctLinks

\* a student with two rows whose hrefs differ and give one review link
C19_Witness ==
    /\ Parsed
    /\ Len(content) = 2
    /\ content[1].review # content[2].review
    /\ Len(regrade_info) = 1
    /\ regrade_info[1].num_comments = 2
    /\ Len(regrade_info[1].regrades) = 1

\* C20: the counting loop leaves the link map and, in every student entry,
\* everything but num_accepted and num_responded as they were, and counting
\* again from the entries it produced and the same link map gives the same
\* counts: the counts are not added to those already there.
C20_AggregationIsIdempotentFold ==
    [][pc = "aggregate" =>
          /\ link_map' = link_map
          /\ link_order' = link_order
          /\ Len(regrade_info') = Len(regrade_info)
          /\ \A i \in 1..Len(regrade_info) :
                /\ regrade_info'[i].name = regrade_info[i].name
                /\ regrade_info'[i].num_comments = regrade_info[i].num_comments
                /\ regrade_info'[i].regrades = regrade_info[i].regrades
          /\ pc' = "save" =>
                /\ ~Aggregate(regrade_info', link_map', 1).raised
                /\ Aggregate(regrade_info', link_map', 1).regrade_info
                       = regrade_info']_vars

\* the counting loop has given a student with two requests the counts 2 and 1
C20_Witness ==
    /\ pc = "save"
    /\ \E i \in 1..Len(regrade_info) :
          /\ Len(regrade_info[i].regrades) = 2
          /\ regrade_info[i].num_responded = 2
          /\ regrade_info[i].num_accepted = 1

\* C21: on a cache miss, whatever min_requests and metric are, when the
\* counting loop and print_staff_stats look up the record of a request, every
\* review link of every student is a key of the link map: no lookup raises
\* KeyError.
C21_EveryRequestHasItsRecord ==
    ~loaded_from_cache =>
        /\ pc \in {"aggregate", "save", "report", "done"} =>
              \A i \in 1..Len(regrade_info) :
                  \A k \in 1..Len(regrade_info[i].regrades) :
                      regrade_info[i].regrades[k].review_link \in DOMAIN link_map
        /\ ~(pc = "failed" /\ raised = Some("KeyError"))

=============================================================================
